---- MODULE Spec2Model ----
(***************************************************************************)
(* Model of src/predict.py: Predictor.predict and its helpers               *)
(* (_aligned_offset, _harmonise, _resize_axis, _crop_axis).                  *)
(*                                                                           *)
(* An image is modelled by its size, the pair <<width, height>> that         *)
(* Pillow's im.size returns (pixel contents play no part in the layout).     *)
(* predict is followed step by step (pc): harmonise, canvas, paste loop,     *)
(* export.  The pure helper _aligned_offset also has a specification of its  *)
(* own (SpecAlign) that applies it to arbitrary integer extents.             *)
(***************************************************************************)
EXTENDS Integers, Sequences, FiniteSets, TLC

VARIABLES
    images,             \* sizes of the loaded pictures (lines 75-78)
    orientation,        \* argument of predict
    alignment,          \* argument of predict
    resize_strategy,    \* argument of predict
    keep_aspect_ratio,  \* argument of predict
    border_thickness,   \* argument of predict
    output_format,      \* argument of predict, "" until read at line 107
    output_quality,     \* argument of predict, 0 until read at line 115
    pc,                 \* position inside predict
    pics,               \* the harmonised pictures (line 81)
    ops,                \* per picture, the low-level op _harmonise applied
    canvas,             \* the canvas of line 92
    ox, oy,             \* running paste offsets (line 95)
    k,                  \* index of the next picture of the paste loop
    pastes,             \* the calls of canvas.paste, in order: picture, x, y
    ext,                \* normalised extension (lines 107-109)
    final_mode,         \* colour mode of the saved image (line 112)
    save_params,        \* keyword arguments of final.save (lines 113-118)
    err,                \* the exception that ended predict, "" if none
    a_container, a_item, a_align, a_result  \* a direct call of _aligned_offset

vars == <<images, orientation, alignment, resize_strategy, keep_aspect_ratio,
          border_thickness, output_format, output_quality, pc, pics, ops,
          canvas, ox, oy, k, pastes, ext, final_mode, save_params, err,
          a_container, a_item, a_align, a_result>>

predictVars == <<images, orientation, alignment, resize_strategy,
                 keep_aspect_ratio, border_thickness, output_format,
                 output_quality, pc, pics, ops, canvas, ox, oy, k, pastes,
                 ext, final_mode, save_params, err>>

alignVars == <<a_container, a_item, a_align, a_result>>

----------------------------------------------------------------------------
(* Bounds of the model *)

MaxDim == 2        \* picture widths and heights range over 1..MaxDim
MaxImages == 2     \* at most this many pictures are supplied
MaxBorder == 1     \* border_thickness is 0 or MaxBorder
MaxExtent == 3     \* SpecAlign: extents range over -MaxExtent..MaxExtent

(* Program constants *)

DefaultQuality == 90
MaxQuality == 100

----------------------------------------------------------------------------
(* Input domains.  Each enumerated argument also has one value outside its  *)
(* choices: predict and the static helpers are plain Python callables.       *)

Orientations == {"horizontal", "vertical"}
Alignments == {"start", "center", "end"}
AlignmentInputs == Alignments \cup {"middle"}
Strategies == {"none", "magnify_smaller", "reduce_larger", "crop_larger"}
StrategyInputs == Strategies \cup {"stretch"}
Formats == {"webp", "jpg", "jpeg", "png", "JPEG"}
Qualities == {DefaultQuality, MaxQuality}

Sizes == (1..MaxDim) \X (1..MaxDim)

ScenarioImages == << <<100, 50>>, <<80, 50>>, <<120, 50>> >>

ImageLists ==
    UNION {[1..n -> Sizes] : n \in 1..MaxImages} \cup {ScenarioImages}

ScenarioExtents == {100, 40}
Extents == (-MaxExtent..MaxExtent) \cup ScenarioExtents

----------------------------------------------------------------------------
(* Helpers *)

Width(im) == im[1]
Height(im) == im[2]

RECURSIVE SumOf(_, _)
SumOf(s, axis) ==
    IF s = <<>> THEN 0 ELSE s[1][axis + 1] + SumOf(Tail(s), axis)

MaxOfSet(S) == CHOOSE m \in S : \A x \in S : x <= m
MinOfSet(S) == CHOOSE m \in S : \A x \in S : m <= x

MaxOf(s, axis) == MaxOfSet({s[i][axis + 1] : i \in 1..Len(s)})

\* Python's round() of the quotient num / den (den > 0): half goes to even
Round(num, den) ==
    LET q == num \div den
        r == num % den
    IN  IF 2 * r < den THEN q
        ELSE IF 2 * r > den THEN q + 1
        ELSE IF q % 2 = 0 THEN q ELSE q + 1

\* str.lower() on the format strings of the model
Lower(s) == IF s = "JPEG" THEN "jpeg" ELSE s

----------------------------------------------------------------------------
(* _aligned_offset, lines 130-138 *)

\* variant: the centre offset is rounded towards zero instead of down
AlignedOffsetTrunc(container, item, align) ==
    IF align = "start" THEN [raised |-> FALSE, value |-> 0]
    ELSE IF align = "center"
        THEN [raised |-> FALSE,
              value |-> IF container >= item
                           THEN (container - item) \div 2
                           ELSE -((item - container) \div 2)]
    ELSE IF align = "end"
        THEN [raised |-> FALSE, value |-> container - item]
    ELSE [raised |-> TRUE, value |-> 0]

AlignedOffset(container, item, align) ==
    IF align = "start" THEN [raised |-> FALSE, value |-> 0]
    ELSE IF align = "center"
        THEN [raised |-> FALSE, value |-> (container - item) \div 2]
    ELSE IF align = "end"
        THEN [raised |-> FALSE, value |-> container - item]
    ELSE [raised |-> TRUE, value |-> 0]

----------------------------------------------------------------------------
(* _resize_axis, lines 177-186.  Image.resize refuses a size with a zero    *)
(* side (ValueError: height and width must be > 0).                          *)

ResizeAxis(im, ax, target, keep_ar) ==
    LET w0 == Width(im)
        h0 == Height(im)
        h == IF ax = 0
                THEN (IF keep_ar THEN Round(h0 * target, w0) ELSE h0)
                ELSE target
        w == IF ax = 0
                THEN target
                ELSE (IF keep_ar THEN Round(w0 * target, h0) ELSE w0)
    IN  [raised |-> (w < 1 \/ h < 1), size |-> <<w, h>>, op |-> "resize",
         box |-> <<0, 0, w0, h0>>]

(* _crop_axis, lines 188-196.  Image.crop(box) yields a picture of size     *)
(* (right - left, bottom - top).                                             *)

CropAxis(im, ax, target, keep_ar) ==
    LET left == (Width(im) - target) \div 2
        top == (Height(im) - target) \div 2
        box == IF ax = 0
                  THEN <<left, 0, left + target, Height(im)>>
                  ELSE <<0, top, Width(im), top + target>>
    IN  [raised |-> FALSE, size |-> <<box[3] - box[1], box[4] - box[2]>>,
         op |-> "crop", box |-> box]

Keep(im) ==
    [raised |-> FALSE, size |-> im, op |-> "keep",
     box |-> <<0, 0, Width(im), Height(im)>>]

----------------------------------------------------------------------------
(* _harmonise, lines 140-174 *)

Unchanged(imgs) ==
    [raised |-> FALSE, pics |-> imgs, ops |-> [i \in 1..Len(imgs) |-> Keep(imgs[i])]]

\* variant: no identity short-circuit and a non-strict comparison, so that
\* pictures already at the target size are resampled as well
HarmoniseEager(imgs, orient, strategy, keep_ar) ==
    IF strategy = "none" THEN Unchanged(imgs)
    ELSE
      LET axis == IF orient = "horizontal" THEN 1 ELSE 0
          sizes == [i \in 1..Len(imgs) |-> imgs[i][axis + 1]]
          sizeSet == {sizes[i] : i \in 1..Len(imgs)}
      IN  IF strategy \notin {"magnify_smaller", "reduce_larger", "crop_larger"}
              THEN [raised |-> TRUE, pics |-> <<>>, ops |-> <<>>]
          ELSE
            LET target == IF strategy = "magnify_smaller"
                             THEN MaxOfSet(sizeSet) ELSE MinOfSet(sizeSet)
                cmp(s) == IF strategy = "magnify_smaller"
                             THEN s <= target ELSE s >= target
                res == [i \in 1..Len(imgs) |->
                          IF cmp(sizes[i])
                             THEN (IF strategy = "crop_larger"
                                      THEN CropAxis(imgs[i], axis, target, keep_ar)
                                      ELSE ResizeAxis(imgs[i], axis, target, keep_ar))
                             ELSE Keep(imgs[i])]
            IN  [raised |-> \E i \in 1..Len(imgs) : res[i].raised,
                 pics |-> [i \in 1..Len(imgs) |-> res[i].size],
                 ops |-> res]

Harmonise(imgs, orient, strategy, keep_ar) ==
    IF Len(imgs) = 1 \/ strategy = "none" THEN Unchanged(imgs)
    ELSE
      LET axis == IF orient = "horizontal" THEN 1 ELSE 0
          sizes == [i \in 1..Len(imgs) |-> imgs[i][axis + 1]]
          sizeSet == {sizes[i] : i \in 1..Len(imgs)}
      IN  IF Cardinality(sizeSet) = 1 THEN Unchanged(imgs)
          ELSE IF strategy \notin {"magnify_smaller", "reduce_larger", "crop_larger"}
              THEN [raised |-> TRUE, pics |-> <<>>, ops |-> <<>>]
          ELSE
            LET target == IF strategy = "magnify_smaller"
                             THEN MaxOfSet(sizeSet) ELSE MinOfSet(sizeSet)
                cmp(s) == IF strategy = "magnify_smaller"
                             THEN s < target ELSE s > target
                res == [i \in 1..Len(imgs) |->
                          IF cmp(sizes[i])
                             THEN (IF strategy = "crop_larger"
                                      THEN CropAxis(imgs[i], axis, target, keep_ar)
                                      ELSE ResizeAxis(imgs[i], axis, target, keep_ar))
                             ELSE Keep(imgs[i])]
            IN  [raised |-> \E i \in 1..Len(imgs) : res[i].raised,
                 pics |-> [i \in 1..Len(imgs) |-> res[i].size],
                 ops |-> res]

----------------------------------------------------------------------------
(* canvas size, lines 83-90 *)

\* variant: the border after the last picture is not counted
CanvasSizeNoTrailing(ps, orient, inner) ==
    IF orient = "horizontal"
       THEN <<SumOf(ps, 0) + inner * Len(ps), MaxOf(ps, 1) + inner * 2>>
       ELSE <<MaxOf(ps, 0) + inner * 2, SumOf(ps, 1) + inner * Len(ps)>>

\* variant: the cross extent is taken from the first picture, not the largest
CanvasSizeFirstCross(ps, orient, inner) ==
    IF orient = "horizontal"
       THEN <<SumOf(ps, 0) + inner * (Len(ps) + 1), Height(ps[1]) + inner * 2>>
       ELSE <<Width(ps[1]) + inner * 2, SumOf(ps, 1) + inner * (Len(ps) + 1)>>

CanvasSize(ps, orient, inner) ==
    IF orient = "horizontal"
       THEN <<SumOf(ps, 0) + inner * (Len(ps) + 1), MaxOf(ps, 1) + inner * 2>>
       ELSE <<MaxOf(ps, 0) + inner * 2, SumOf(ps, 1) + inner * (Len(ps) + 1)>>

(* one iteration of the paste loop, lines 96-104: the position pasted at    *)
(* and the offsets after it                                                  *)

\* variant: the running offset advances by the picture only, not the border
PasteAtNoGap(im, orient, align, inner, cw, ch, x0, y0) ==
    IF orient = "horizontal"
       THEN LET off == AlignedOffset(ch - inner * 2, Height(im), align)
            IN  [raised |-> off.raised, pos |-> <<x0, y0 + off.value>>,
                 ox |-> x0 + Width(im), oy |-> y0]
       ELSE LET off == AlignedOffset(cw - inner * 2, Width(im), align)
            IN  [raised |-> off.raised, pos |-> <<x0 + off.value, y0>>,
                 ox |-> x0, oy |-> y0 + Height(im)]

PasteAt(im, orient, align, inner, cw, ch, x0, y0) ==
    IF orient = "horizontal"
       THEN LET off == AlignedOffset(ch - inner * 2, Height(im), align)
            IN  [raised |-> off.raised, pos |-> <<x0, y0 + off.value>>,
                 ox |-> x0 + Width(im) + inner, oy |-> y0]
       ELSE LET off == AlignedOffset(cw - inner * 2, Width(im), align)
            IN  [raised |-> off.raised, pos |-> <<x0 + off.value, y0>>,
                 ox |-> x0, oy |-> y0 + Height(im) + inner]

(* export, lines 107-118 *)

NormaliseExt(fmt) ==
    LET e == Lower(fmt) IN IF e = "jpeg" THEN "jpg" ELSE e

FinalMode(e) == IF e = "jpg" THEN "RGB" ELSE "RGBA"

\* variant: lossless is switched on at quality 100 whatever the format
SaveParamsLosslessAny(e, quality) ==
    IF e \in {"jpg", "webp"}
       THEN [keys |-> {"quality", "optimize"}
                      \cup (IF quality = 100 THEN {"lossless"} ELSE {}),
             quality |-> quality]
       ELSE [keys |-> {}, quality |-> 0]

SaveParams(e, quality) ==
    IF e \in {"jpg", "webp"}
       THEN [keys |-> {"quality", "optimize"}
                      \cup (IF e = "webp" /\ quality = 100
                               THEN {"lossless"} ELSE {}),
             quality |-> quality]
       ELSE [keys |-> {}, quality |-> 0]

----------------------------------------------------------------------------
(* predict, lines 28-125 *)

NoCanvas == [allocated |-> FALSE, w |-> 0, h |-> 0]
NoParams == [keys |-> {}, quality |-> 0]
NoResult == [called |-> FALSE, raised |-> FALSE, value |-> 0]

Init ==
    /\ images \in ImageLists
    /\ orientation \in Orientations
    /\ alignment \in AlignmentInputs
    /\ resize_strategy \in StrategyInputs
    /\ keep_aspect_ratio \in BOOLEAN
    /\ border_thickness \in {0, MaxBorder}
    /\ output_format = ""
    /\ output_quality = 0
    /\ pc = "harmonise"
    /\ pics = <<>>
    /\ ops = <<>>
    /\ canvas = NoCanvas
    /\ ox = 0 /\ oy = 0
    /\ k = 0
    /\ pastes = <<>>
    /\ ext = ""
    /\ final_mode = ""
    /\ save_params = NoParams
    /\ err = ""
    /\ a_container = 0 /\ a_item = 0 /\ a_align = "start"
    /\ a_result = NoResult

\* line 81
HarmoniseStep ==
    /\ pc = "harmonise"
    /\ LET r == Harmonise(images, orientation, resize_strategy, keep_aspect_ratio)
       IN  \/ /\ ~r.raised
              /\ pics' = r.pics
              /\ ops' = r.ops
              /\ pc' = "canvas"
              /\ err' = err
           \/ /\ r.raised
              /\ pc' = "error"
              /\ err' = "ValueError:harmonise"
              /\ UNCHANGED <<pics, ops>>
    /\ UNCHANGED <<images, orientation, alignment, resize_strategy,
                   keep_aspect_ratio, border_thickness, output_format,
                   output_quality, canvas, ox, oy, k, pastes, ext,
                   final_mode, save_params>>
    /\ UNCHANGED alignVars

\* lines 84-95
CanvasStep ==
    /\ pc = "canvas"
    /\ LET sz == CanvasSize(pics, orientation, border_thickness)
       IN  canvas' = [allocated |-> TRUE, w |-> sz[1], h |-> sz[2]]
    /\ ox' = border_thickness
    /\ oy' = border_thickness
    /\ k' = 1
    /\ pc' = "paste"
    /\ UNCHANGED <<images, orientation, alignment, resize_strategy,
                   keep_aspect_ratio, border_thickness, output_format,
                   output_quality, pics, ops, pastes, ext, final_mode,
                   save_params, err>>
    /\ UNCHANGED alignVars

\* lines 96-104, one picture
PasteStep ==
    /\ pc = "paste"
    /\ k <= Len(pics)
    /\ LET p == PasteAt(pics[k], orientation, alignment, border_thickness,
                        canvas.w, canvas.h, ox, oy)
       IN  \/ /\ ~p.raised
              /\ pastes' = Append(pastes, [im |-> k, x |-> p.pos[1], y |-> p.pos[2]])
              /\ ox' = p.ox
              /\ oy' = p.oy
              /\ k' = k + 1
              /\ pc' = IF k = Len(pics) THEN "export" ELSE "paste"
              /\ err' = err
           \/ /\ p.raised
              /\ pc' = "error"
              /\ err' = "ValueError:alignment"
              /\ UNCHANGED <<pastes, ox, oy, k>>
    /\ UNCHANGED <<images, orientation, alignment, resize_strategy,
                   keep_aspect_ratio, border_thickness, output_format,
                   output_quality, pics, ops, canvas, ext, final_mode,
                   save_params>>
    /\ UNCHANGED alignVars

\* lines 107-125
ExportStep ==
    /\ pc = "export"
    /\ \E fmt \in Formats, q \in Qualities :
          /\ output_format' = fmt
          /\ output_quality' = q
          /\ ext' = NormaliseExt(fmt)
          /\ final_mode' = FinalMode(NormaliseExt(fmt))
          /\ save_params' = SaveParams(NormaliseExt(fmt), q)
    /\ pc' = "done"
    /\ UNCHANGED <<images, orientation, alignment, resize_strategy,
                   keep_aspect_ratio, border_thickness, pics, ops, canvas,
                   ox, oy, k, pastes, err>>
    /\ UNCHANGED alignVars

Next ==
    \/ HarmoniseStep
    \/ CanvasStep
    \/ PasteStep
    \/ ExportStep

Spec == Init /\ [][Next]_vars

----------------------------------------------------------------------------
(* A direct call of the static method _aligned_offset *)

InitAlign ==
    /\ images = << <<1, 1>> >>
    /\ orientation = "horizontal"
    /\ alignment = "center"
    /\ resize_strategy = "reduce_larger"
    /\ keep_aspect_ratio = TRUE
    /\ border_thickness = 0
    /\ output_format = ""
    /\ output_quality = 0
    /\ pc = "idle"
    /\ pics = <<>>
    /\ ops = <<>>
    /\ canvas = NoCanvas
    /\ ox = 0 /\ oy = 0
    /\ k = 0
    /\ pastes = <<>>
    /\ ext = ""
    /\ final_mode = ""
    /\ save_params = NoParams
    /\ err = ""
    /\ a_container \in Extents
    /\ a_item \in Extents
    /\ a_align \in AlignmentInputs
    /\ a_result = NoResult

CallAlignedOffset ==
    /\ ~a_result.called
    /\ LET r == AlignedOffset(a_container, a_item, a_align)
       IN  a_result' = [called |-> TRUE, raised |-> r.raised, value |-> r.value]
    /\ UNCHANGED <<a_container, a_item, a_align>>
    /\ UNCHANGED predictVars

NextAlign == CallAlignedOffset

SpecAlign == InitAlign /\ [][NextAlign]_vars

----------------------------------------------------------------------------
(* Properties *)

\* tuple index of the merge axis (width for horizontal, height for vertical)
\* and of the cross axis
MergeIdx == IF orientation = "horizontal" THEN 1 ELSE 2
CrossIdx == IF orientation = "horizontal" THEN 2 ELSE 1

\* _harmonise has returned
Harmonised ==
    pc \in {"canvas", "paste", "export", "done"} \/ err = "ValueError:alignment"

CanvasDim(i) == IF i = 1 THEN canvas.w ELSE canvas.h
PasteCoord(p, i) == IF i = 1 THEN p.x ELSE p.y

RECURSIVE SumUpTo(_, _, _)
SumUpTo(s, n, i) == IF n = 0 THEN 0 ELSE s[n][i] + SumUpTo(s, n - 1, i)

\* C1: once the canvas is built, its merge-axis size is the sum of the
\* harmonised pictures' merge-axis sizes plus border_thickness * (count + 1),
\* and its cross-axis size is the largest harmonised cross-axis size plus
\* border_thickness * 2.
C1_CanvasSize ==
    canvas.allocated =>
        /\ CanvasDim(MergeIdx)
             = SumUpTo(pics, Len(pics), MergeIdx)
               + border_thickness * (Len(pics) + 1)
        /\ \A i \in 1..Len(pics) :
               pics[i][CrossIdx] + border_thickness * 2 <= CanvasDim(CrossIdx)
        /\ \E i \in 1..Len(pics) :
               pics[i][CrossIdx] + border_thickness * 2 = CanvasDim(CrossIdx)

C1_Witness ==
    /\ canvas.allocated
    /\ Len(pics) >= 2
    /\ border_thickness > 0
    /\ \E i \in 1..Len(pics) : ops[i].op = "resize"
    /\ \E i, j \in 1..Len(pics) : pics[i][MergeIdx] # pics[j][MergeIdx]

\* C2 (as claimed): after harmonisation with reduce_larger every picture's
\* merge-axis size (width for horizontal, height for vertical) equals the
\* smallest merge-axis size of the inputs, and with magnify_smaller the
\* largest.
C2_MergeAxisEqualised ==
    (Harmonised /\ resize_strategy \in {"reduce_larger", "magnify_smaller"}) =>
        LET inSizes == {images[i][MergeIdx] : i \in 1..Len(images)}
            target == IF resize_strategy = "reduce_larger"
                         THEN MinOfSet(inSizes) ELSE MaxOfSet(inSizes)
        IN  \A i \in 1..Len(pics) : pics[i][MergeIdx] = target

\* C3 (as claimed): with crop_larger harmonisation leaves every picture's
\* cross-axis size (height for horizontal, width for vertical) unchanged,
\* never enlarges its merge-axis size, and a cropped picture starts at
\* offset (original merge size - target) // 2 along the merge axis.
C3_CropKeepsCrossAxis ==
    (Harmonised /\ resize_strategy = "crop_larger") =>
        \A i \in 1..Len(pics) :
            /\ pics[i][CrossIdx] = images[i][CrossIdx]
            /\ pics[i][MergeIdx] <= images[i][MergeIdx]
            /\ ops[i].op = "crop" =>
                 ops[i].box[MergeIdx]
                   = (images[i][MergeIdx] - pics[i][MergeIdx]) \div 2

\* C4: pictures are pasted in input order, the k-th at merge-axis offset
\* border_thickness + sum over the preceding pictures of (merge-axis size +
\* border_thickness); the 100x50, 80x50, 120x50 scenario gives a 300x50
\* canvas and x-offsets 0, 100, 180.
C4_PasteOffsets ==
    /\ \A i \in 1..Len(pastes) :
         /\ pastes[i].im = i
         /\ PasteCoord(pastes[i], MergeIdx)
              = border_thickness + SumUpTo(pics, i - 1, MergeIdx)
                + (i - 1) * border_thickness
    /\ (/\ pc \in {"export", "done"}
        /\ images = ScenarioImages
        /\ orientation = "horizontal"
        /\ resize_strategy = "none"
        /\ border_thickness = 0)
       => /\ canvas.w = 300 /\ canvas.h = 50
          /\ [i \in 1..Len(pastes) |-> pastes[i].x] = <<0, 100, 180>>

C4_Witness ==
    /\ pc = "export"
    /\ Len(pastes) = 3
    /\ border_thickness > 0
    /\ pastes[3].im = 3
    /\ \E i, j \in 1..Len(pics) : pics[i][MergeIdx] # pics[j][MergeIdx]

\* C5 (as claimed): whenever an unrecognised strategy is supplied, whatever
\* the list of pictures, _harmonise fails with an error.
C5_InvalidStrategyFails ==
    (resize_strategy \notin Strategies /\ pc # "harmonise") =>
        (pc = "error" /\ err = "ValueError:harmonise")

\* C6 (as claimed): the invalid-alignment error is raised before any canvas
\* is allocated.
C6_AlignmentErrorBeforeCanvas ==
    err = "ValueError:alignment" => ~canvas.allocated

\* C7: _aligned_offset returns 0 for start, floor((container - item) / 2)
\* for center, container - item for end, and fails for any other value;
\* (100, 40) gives 0, 30, 60.
C7_AlignedOffset ==
    a_result.called =>
        /\ a_result.raised <=> a_align \notin {"start", "center", "end"}
        /\ a_align = "start" => a_result.value = 0
        /\ a_align = "center" =>
              /\ 2 * a_result.value <= a_container - a_item
              /\ a_container - a_item < 2 * a_result.value + 2
        /\ a_align = "end" => a_result.value + a_item = a_container
        /\ (a_container = 100 /\ a_item = 40) =>
              /\ a_align = "start" => a_result.value = 0
              /\ a_align = "center" => a_result.value = 30
              /\ a_align = "end" => a_result.value = 60

C7_Witness ==
    /\ a_result.called
    /\ a_align = "center"
    /\ a_item > a_container
    /\ (a_item - a_container) % 2 = 1
    /\ a_result.value < 0

\* C8: with a single picture and border_thickness 0, _harmonise returns the
\* picture unchanged without applying resize or crop, the picture is pasted
\* at (0, 0) and the canvas has exactly the picture's size.
C8_SingleImageIdentity ==
    (Len(images) = 1 /\ border_thickness = 0) =>
        /\ pc # "harmonise" =>
              /\ pc # "error" \/ err = "ValueError:alignment"
              /\ pics = images
              /\ \A i \in 1..Len(ops) : ops[i].op = "keep"
        /\ canvas.allocated =>
              /\ canvas.w = images[1][1]
              /\ canvas.h = images[1][2]
        /\ \A i \in 1..Len(pastes) : pastes[i].x = 0 /\ pastes[i].y = 0
        /\ pc \in {"export", "done"} => Len(pastes) = 1

C8_Witness ==
    /\ Len(images) = 1
    /\ border_thickness = 0
    /\ pc = "done"
    /\ resize_strategy = "reduce_larger"
    /\ alignment = "end"
    /\ Len(pastes) = 1

\* C9: the encoder parameters depend on (output_format, output_quality)
\* only: jpeg is normalised to jpg; quality and optimize are attached exactly
\* for jpg and webp; lossless exactly for webp at quality 100; the canvas is
\* flattened to RGB exactly for jpg.
C9_EncoderParams ==
    pc = "done" =>
        LET isJpg == output_format \in {"jpg", "jpeg", "JPEG"}
            isWebp == output_format = "webp"
        IN  /\ isJpg <=> ext = "jpg"
            /\ ~isJpg => ext = output_format
            /\ "quality" \in save_params.keys <=> (isJpg \/ isWebp)
            /\ "optimize" \in save_params.keys <=> (isJpg \/ isWebp)
            /\ "quality" \in save_params.keys
                  => save_params.quality = output_quality
            /\ "lossless" \in save_params.keys
                  <=> (isWebp /\ output_quality = 100)
            /\ final_mode = "RGB" <=> isJpg
            /\ final_mode = "RGBA" <=> ~isJpg

C9_Witness ==
    /\ pc = "done"
    /\ output_format = "jpeg"
    /\ output_quality = 100
    /\ ext = "jpg"
    /\ "lossless" \notin save_params.keys

\* C10: with a valid alignment every picture is pasted inside the canvas's
\* inner region: the cross-axis alignment offset is not negative, the pasted
\* rectangle lies within [border, width - border] x [border, height - border],
\* consecutive pictures are exactly border_thickness apart along the merge
\* axis, and the last picture ends at canvas merge-axis size - border.
C10_PastedInsideCanvas ==
    alignment \in Alignments =>
        /\ \A i \in 1..Len(pastes) :
              /\ PasteCoord(pastes[i], CrossIdx) - border_thickness >= 0
              /\ pastes[i].x >= border_thickness
              /\ pastes[i].y >= border_thickness
              /\ pastes[i].x + pics[pastes[i].im][1] <= canvas.w - border_thickness
              /\ pastes[i].y + pics[pastes[i].im][2] <= canvas.h - border_thickness
        /\ \A i \in 1..(Len(pastes) - 1) :
              PasteCoord(pastes[i + 1], MergeIdx)
                = PasteCoord(pastes[i], MergeIdx)
                  + pics[pastes[i].im][MergeIdx] + border_thickness
        /\ pc \in {"export", "done"} =>
              /\ Len(pastes) = Len(pics)
              /\ PasteCoord(pastes[Len(pastes)], MergeIdx)
                   + pics[Len(pics)][MergeIdx]
                 = CanvasDim(MergeIdx) - border_thickness

C10_Witness ==
    /\ pc = "export"
    /\ alignment = "center"
    /\ border_thickness > 0
    /\ Len(pastes) >= 2
    /\ \E i \in 1..Len(pastes) :
          PasteCoord(pastes[i], CrossIdx) - border_thickness > 0

====
